---- MODULE Spec2Model ----
(***************************************************************************)
(* Model of fms_fsdp/utils/train_utils.py: the per-worker training loop    *)
(* train() run by every rank of a process group, with the blocking         *)
(* all_reduce of ddp_stats at report boundaries, and get_policies().       *)
(*                                                                         *)
(* Units.  Losses and gradient norms are integers counting tenths (10      *)
(* stands for 1.0, 1 for 0.1).  The tensor division of lines 85-86 is      *)
(* exact division: a quotient is kept as a reduced fraction [num, den].    *)
(***************************************************************************)
EXTENDS Integers, Sequences, FiniteSets, TLC

\* ---------------------------------------------------------------- bounds
MaxSteps == 3
MaxInterval == 3
MaxStart == 1

\* ------------------------------------------------------ program constants
batch_size == 2
seq_length == 4096

WorldSizes == {1, 2}
\* the (loss.item(), clip_grad_norm_().item()) pairs one step can produce, in tenths
Samples == {<<10, 3>>, <<20, 1>>, <<30, 2>>}
TokensSeenValues == {0, 5}

VARIABLES
    cfg,              \* train_config fields read by train()
    world,            \* number of ranks in the process group
    environ,          \* os.environ restricted to WORLD_SIZE
    wandb_installed,  \* whether "import wandb" succeeds
    start_step,       \* train() argument
    tokens_seen,      \* train() argument
    profiler,         \* train() argument: whether a profiler handle is passed
    loader,           \* per rank: number of batches train_loader can yield
    save_fault,       \* per rank: which call of checkpointer.save raises, 0 for none
    pace,             \* per rank: seconds its n-th training step takes
    pc,               \* per rank: position in train()
    err,              \* per rank: exception that left train(), or "none"
    batch_idx,        \* per rank: loop variable of line 61
    ddp_stats,        \* per rank: the 3-slot tensor of line 57
    train_loss,       \* per rank: local of line 85
    g_norm,           \* per rank: local of line 86
    new_tokens_seen,  \* per rank: local of line 89
    result,           \* per rank: value returned by train()
    reduce_acc,       \* all_reduce: sum of the tensors contributed so far
    arrived,          \* all_reduce: per rank, contributions to the open round
    contrib_step,     \* all_reduce: per rank, batch_idx of its contribution
    round_log,        \* last completed all_reduce: who contributed, at which step
    interval_total,   \* history: per boundary step, sum of all samples taken for it
    printed,          \* per rank: steps whose metrics it printed
    wandb_inited,     \* ranks that called wandb.init
    wandb_logged,     \* per rank: step keys passed to wandb.log
    saves,            \* per rank: sequence of checkpointer.save calls
    drawn,            \* per rank: batches taken from train_loader
    opt_steps,        \* per rank: calls of optimizer.step()
    sched_steps,      \* per rank: calls of scheduler.step()
    events,           \* per rank: what the current step has done so far, in order
    reduce_calls,     \* per rank: steps at which it called dist.all_reduce
    metrics,          \* per rank: the values it emitted at each report
    now,              \* per rank: time.time()
    start,            \* per rank: local of lines 59 and 132
    loop_start,       \* per rank: local of line 60
    pol_in,           \* get_policies: cfg fields, rank and what the probes answer
    pol_out           \* get_policies: its outcome

cfgVars == <<cfg, world, environ, wandb_installed, start_step, tokens_seen,
             profiler, loader, save_fault, pace>>
polVars == <<pol_in, pol_out>>
reduceVars == <<reduce_acc, arrived, contrib_step, round_log>>
sinkVars == <<printed, wandb_inited, wandb_logged>>
countVars == <<drawn, opt_steps, sched_steps>>
clockVars == <<now, start, loop_start>>

vars == <<cfgVars, polVars, reduceVars, sinkVars, countVars, clockVars, pc, err,
          batch_idx, ddp_stats, train_loss, g_norm, new_tokens_seen, result,
          interval_total, saves, events, reduce_calls, metrics>>

Workers == 0..(world - 1)

\* ------------------------------------------------------------ arithmetic
RECURSIVE GCD(_, _)
GCD(a, b) == IF b = 0 THEN a ELSE GCD(b, a % b)

Zeros == <<0, 0, 0>>

Unbound == [bound |-> FALSE, num |-> 0, den |-> 1]

UnboundInt == [bound |-> FALSE, val |-> 0]

\* tensor / tensor of lines 85-86, exact; x / 0 is nan, kept as 0/0
Div(a, b) ==
    IF b = 0 THEN [bound |-> TRUE, num |-> 0, den |-> 0]
    ELSE LET g == GCD(a, b)
         IN  [bound |-> TRUE, num |-> a \div g, den |-> b \div g]

AddStats(s, t) == <<s[1] + t[1], s[2] + t[2], s[3] + t[3]>>

Set(f, w, v) == [f EXCEPT ![w] = v]

\* the first multiple of report_interval at or after step b
Boundary(b) ==
    LET ri == cfg.report_interval
    IN  IF b % ri = 0 THEN b ELSE b + (ri - (b % ri))

\* ------------------------------------------------- the pieces of train()
\* lines 73, 77, 78: ddp_stats[1] += norm; ddp_stats[0] += loss; ddp_stats[2] += 1
Accumulate(stats, loss, norm) == <<stats[1] + loss, stats[2] + norm, stats[3] + 1>>

\* the loop left one step early
LoopEnds_OffByOne(b) == b >= cfg.num_steps

\* line 62: batch_idx > cfg.num_steps
LoopEnds(b) == b > cfg.num_steps

\* the boundary counted from the step the run resumed at
ReportDue_FromStart(b) == (b - start_step) % cfg.report_interval = 0

\* line 83: batch_idx % cfg.report_interval == 0
ReportDue(b) == b % cfg.report_interval = 0

\* the save guarded by rank == 0
CheckpointDue_RankZero(w, b) == w = 0 /\ b % cfg.checkpoint_interval = 0

\* line 136: batch_idx % cfg.checkpoint_interval == 0, on whichever rank w
CheckpointDue(w, b) == b % cfg.checkpoint_interval = 0

\* the output not guarded by the rank
IsReporter_Every(w) == TRUE

\* lines 40 and 92: rank == 0
IsReporter(w) == w = 0

\* the summed loss divided by the interval length instead of the summed count
AverageLoss_PerInterval(stats) == Div(stats[1], cfg.report_interval)

\* line 85: train_loss = ddp_stats[0] / ddp_stats[2]
AverageLoss(stats) == Div(stats[1], stats[3])

\* line 86: g_norm = ddp_stats[1] / ddp_stats[2]
AverageGNorm(stats) == Div(stats[2], stats[3])

\* lines 88-91: (batch_idx - start_step) * world_size * batch_size * seq_length
NewTokensSeen(b) ==
    (b - start_step) * environ["WORLD_SIZE"] * cfg.batch_size * cfg.seq_length

\* the reset moved inside the rank == 0 block
StatsAfterReport_RankZeroOnly(w) == IF w = 0 THEN Zeros ELSE ddp_stats[w]

\* line 133: ddp_stats.zero_(), outside the rank == 0 block
StatsAfterReport(w) == Zeros

\* line 142: tokens_seen=tokens_seen + new_tokens_seen
SaveTokens(w) == tokens_seen + new_tokens_seen[w].val

\* a reduction that returns as soon as one rank has called it
AllReduceReady_NoBarrier == \E w \in Workers : arrived[w] >= 1

\* a reduction over a group one rank larger than the ranks that run train()
AllReduceReady_ExtraRank == Cardinality({w \in Workers : arrived[w] >= 1}) > world

\* dist.all_reduce (torch.distributed, called at line 84) returns on no rank
\* before every rank of the group has called it
AllReduceReady == \A w \in Workers : arrived[w] >= 1

\* the import made by rank 0 alone
WandbImportFails_RankZero(w) == w = 0 /\ cfg.use_wandb /\ ~wandb_installed

\* lines 32-38: "import wandb" under cfg.use_wandb, outside the rank == 0 block
WandbImportFails(w) == cfg.use_wandb /\ ~wandb_installed

\* line 61: the iterator of train_loader has another batch
LoaderYields(w) == drawn[w] < loader[w]

\* the optimizer stepped on every second batch only
OptimizerSteps_Accumulating(w) ==
    IF batch_idx[w] % 2 = 0 THEN opt_steps[w] + 1 ELSE opt_steps[w]

\* line 74: optimizer.step(), once in every pass of the loop body
OptimizerSteps(w) == opt_steps[w] + 1

\* the optimizer stepped before the gradients are clipped
BodyEvents_StepBeforeClip ==
    <<"optimizer", "clip", "scheduler", "accumulate">>
        \o (IF profiler THEN <<"profiler">> ELSE << >>)

\* lines 72-81 in program order: clip_grad_norm_ (its norm added to slot 1),
\* optimizer.step(), scheduler.step(), the loss and the count added to slots 0
\* and 2, profiler.step() when a profiler is passed
BodyEvents ==
    <<"clip", "optimizer", "scheduler", "accumulate">>
        \o (IF profiler THEN <<"profiler">> ELSE << >>)

\* the tokens of all ranks divided by the elapsed time
OverallThroughput_AllRanks(b, elapsed) == NewTokensSeen(b) \div elapsed

\* line 97: int(new_tokens_seen / world_size / elapsed_time)
OverallThroughput(b, elapsed) ==
    (NewTokensSeen(b) \div environ["WORLD_SIZE"]) \div elapsed

\* a failed save caught and the loop continued
AfterSave_Swallowed(ok) == "loop"

\* lines 137-143: the call is in no try block, what save raises leaves train()
AfterSave(ok) == IF ok THEN "loop" ELSE "failed"

\* line 145 (after the break of line 63 or the end of the loader): return train_loss
ReturnOutcome(w) ==
    IF train_loss[w].bound
    THEN [pc |-> "done", err |-> err[w], result |-> train_loss[w]]
    ELSE [pc |-> "failed", err |-> "UnboundLocalError", result |-> result[w]]

\* ------------------------------------------------------------------ Init
\* train_config (config/training.py) restricted to the fields train() reads
Configs ==
    [num_steps : 1..MaxSteps,
     report_interval : 1..MaxInterval,
     checkpoint_interval : 1..MaxInterval,
     batch_size : {batch_size},
     seq_length : {seq_length},
     use_wandb : BOOLEAN]

\* the state of every rank on entry to train()
TrainEntry ==
    /\ pc = [w \in Workers |-> "start"]
    /\ err = [w \in Workers |-> "none"]
    /\ batch_idx = [w \in Workers |-> start_step]
    /\ ddp_stats = [w \in Workers |-> Zeros]
    /\ train_loss = [w \in Workers |-> Unbound]
    /\ g_norm = [w \in Workers |-> Unbound]
    /\ new_tokens_seen = [w \in Workers |-> UnboundInt]
    /\ result = [w \in Workers |-> Unbound]
    /\ reduce_acc = Zeros
    /\ arrived = [w \in Workers |-> 0]
    /\ contrib_step = [w \in Workers |-> 0]
    /\ round_log = [n |-> 0, who |-> arrived, step |-> contrib_step]
    /\ interval_total = [b \in 1..(cfg.num_steps + cfg.report_interval) |-> Zeros]
    /\ printed = [w \in Workers |-> {}]
    /\ wandb_inited = {}
    /\ wandb_logged = [w \in Workers |-> {}]
    /\ saves = [w \in Workers |-> << >>]
    /\ drawn = [w \in Workers |-> 0]
    /\ opt_steps = [w \in Workers |-> 0]
    /\ sched_steps = [w \in Workers |-> 0]
    /\ events = [w \in Workers |-> << >>]
    /\ reduce_calls = [w \in Workers |-> {}]
    /\ metrics = [w \in Workers |-> << >>]
    /\ now = [w \in Workers |-> 0]
    /\ start = [w \in Workers |-> 0]
    /\ loop_start = [w \in Workers |-> 0]

TrainInputs ==
    /\ cfg \in Configs
    /\ world \in WorldSizes
    /\ environ \in {<< >>, [k \in {"WORLD_SIZE"} |-> world]}
    /\ wandb_installed \in BOOLEAN
    /\ start_step \in 0..MaxStart
    /\ tokens_seen \in TokensSeenValues

\* a train_loader with more batches than any run within the bounds takes
LoaderPlenty == MaxSteps + 1

\* every step taking one second
SteadyPace == [n \in 1..MaxSteps |-> 1]

\* no profiler, loaders that do not run out, saves that succeed
NominalRun ==
    /\ profiler = FALSE
    /\ loader = [w \in Workers |-> LoaderPlenty]
    /\ save_fault = [w \in Workers |-> 0]
    /\ pace = [w \in Workers |-> SteadyPace]

\* --------------------------------------------------------------- actions
\* lines 32-60: the wandb import and init, model.train(), ddp_stats = zeros(3),
\* start = loop_start = time.time()
Startup(w) ==
    /\ pc[w] = "start"
    /\ IF WandbImportFails(w)
       THEN /\ pc' = Set(pc, w, "failed")
            /\ err' = Set(err, w, "ImportError")
            /\ UNCHANGED <<wandb_inited, ddp_stats, start, loop_start>>
       ELSE /\ wandb_inited' = IF cfg.use_wandb /\ IsReporter(w)
                               THEN wandb_inited \cup {w} ELSE wandb_inited
            /\ ddp_stats' = Set(ddp_stats, w, Zeros)
            /\ start' = Set(start, w, now[w])
            /\ loop_start' = Set(loop_start, w, now[w])
            /\ pc' = Set(pc, w, "loop")
            /\ err' = err
    /\ UNCHANGED <<cfgVars, polVars, reduceVars, countVars, printed, wandb_logged,
                   batch_idx, train_loss, g_norm, new_tokens_seen, result,
                   interval_total, saves, events, reduce_calls, metrics, now>>

\* lines 61-63 and 145: the next (batch_idx, batch) of enumerate(train_loader,
\* start=start_step + 1); past num_steps the loop breaks, and when the loader has
\* no batch left the loop ends; either way train_loss is returned
NextBatch(w) ==
    /\ pc[w] = "loop"
    /\ IF LoaderYields(w)
       THEN /\ drawn' = Set(drawn, w, drawn[w] + 1)
            /\ batch_idx' = Set(batch_idx, w, batch_idx[w] + 1)
            /\ IF LoopEnds(batch_idx'[w])
               THEN /\ pc' = Set(pc, w, ReturnOutcome(w).pc)
                    /\ err' = Set(err, w, ReturnOutcome(w).err)
                    /\ result' = Set(result, w, ReturnOutcome(w).result)
                    /\ events' = events
               ELSE /\ pc' = Set(pc, w, "body")
                    /\ events' = Set(events, w, << >>)
                    /\ UNCHANGED <<err, result>>
       ELSE /\ pc' = Set(pc, w, ReturnOutcome(w).pc)
            /\ err' = Set(err, w, ReturnOutcome(w).err)
            /\ result' = Set(result, w, ReturnOutcome(w).result)
            /\ UNCHANGED <<drawn, batch_idx, events>>
    /\ UNCHANGED <<cfgVars, polVars, reduceVars, sinkVars, clockVars, opt_steps,
                   sched_steps, ddp_stats, train_loss, g_norm, new_tokens_seen,
                   interval_total, saves, reduce_calls, metrics>>

\* lines 64-84: forward, backward, clip, optimizer and scheduler step, the
\* accumulation into ddp_stats; at a report boundary the rank then enters the
\* blocking dist.all_reduce(ddp_stats, SUM), else it goes on to line 134
TrainStepOn(w, sample) ==
    /\ pc[w] = "body"
    /\ opt_steps' = Set(opt_steps, w, OptimizerSteps(w))
    /\ sched_steps' = Set(sched_steps, w, sched_steps[w] + 1)
    /\ now' = Set(now, w, now[w] + pace[w][drawn[w]])
    /\ LET stats == Accumulate(ddp_stats[w], sample[1], sample[2])
           b == Boundary(batch_idx[w])
       IN  /\ ddp_stats' = Set(ddp_stats, w, stats)
           /\ interval_total' =
                Set(interval_total, b,
                    AddStats(interval_total[b], <<sample[1], sample[2], 1>>))
           /\ IF ReportDue(batch_idx[w])
              THEN /\ reduce_acc' = AddStats(reduce_acc, stats)
                   /\ arrived' = Set(arrived, w, arrived[w] + 1)
                   /\ contrib_step' = Set(contrib_step, w, batch_idx[w])
                   /\ reduce_calls' =
                        Set(reduce_calls, w, reduce_calls[w] \cup {batch_idx[w]})
                   /\ events' = Set(events, w, BodyEvents \o <<"all_reduce">>)
                   /\ pc' = Set(pc, w, "reduce")
                   /\ round_log' = round_log
              ELSE /\ pc' = Set(pc, w, "ckpt")
                   /\ events' = Set(events, w, BodyEvents)
                   /\ UNCHANGED <<reduceVars, reduce_calls>>
    /\ UNCHANGED <<cfgVars, polVars, sinkVars, drawn, start, loop_start, err,
                   batch_idx, train_loss, g_norm, new_tokens_seen, result, saves,
                   metrics>>

\* one step on whatever loss and gradient norm the batch gives
TrainStep(w) == \E sample \in Samples : TrainStepOn(w, sample)

\* line 84 returning: every waiting rank's ddp_stats becomes the sum, at the time
\* the last of them arrived
AllReduceComplete ==
    /\ \E w \in Workers : pc[w] = "reduce"
    /\ AllReduceReady
    /\ ddp_stats' = [w \in Workers |->
                        IF pc[w] = "reduce" THEN reduce_acc ELSE ddp_stats[w]]
    /\ pc' = [w \in Workers |-> IF pc[w] = "reduce" THEN "report" ELSE pc[w]]
    /\ round_log' = [n |-> round_log.n + 1, who |-> arrived, step |-> contrib_step]
    /\ reduce_acc' = Zeros
    /\ arrived' = [w \in Workers |-> 0]
    /\ contrib_step' = [w \in Workers |-> 0]
    /\ LET s == CHOOSE b \in {contrib_step[w] : w \in {v \in Workers : pc[v] = "reduce"}} :
                   TRUE
       IN  interval_total' =
             [b \in DOMAIN interval_total |->
                 IF b < s THEN Zeros ELSE interval_total[b]]
    /\ LET last == CHOOSE t \in {now[v] : v \in {u \in Workers : pc[u] = "reduce"}} :
                      \A v \in Workers : pc[v] = "reduce" => now[v] <= t
       IN  now' = [w \in Workers |-> IF pc[w] = "reduce" THEN last ELSE now[w]]
    /\ UNCHANGED <<cfgVars, polVars, sinkVars, countVars, start, loop_start, err,
                   batch_idx, train_loss, g_norm, new_tokens_seen, result, saves,
                   events, reduce_calls, metrics>>

\* lines 85-133: the averages, elapsed_time, WORLD_SIZE, new_tokens_seen, the
\* rank-0 output, start = time.time() and the reset of ddp_stats
Report(w) ==
    /\ pc[w] = "report"
    /\ train_loss' = Set(train_loss, w, AverageLoss(ddp_stats[w]))
    /\ g_norm' = Set(g_norm, w, AverageGNorm(ddp_stats[w]))
    /\ IF "WORLD_SIZE" \notin DOMAIN environ
       THEN /\ pc' = Set(pc, w, "failed")
            /\ err' = Set(err, w, "KeyError")
            /\ UNCHANGED <<new_tokens_seen, printed, wandb_logged, ddp_stats,
                           metrics, start, events>>
       ELSE /\ new_tokens_seen' =
                 Set(new_tokens_seen, w,
                     [bound |-> TRUE, val |-> NewTokensSeen(batch_idx[w])])
            /\ IF IsReporter(w)
               THEN /\ printed' = Set(printed, w, printed[w] \cup {batch_idx[w]})
                    /\ metrics' =
                         Set(metrics, w,
                             Append(metrics[w],
                                    [step |-> batch_idx[w],
                                     at |-> now[w],
                                     tokens |-> NewTokensSeen(batch_idx[w]),
                                     total_tokens_seen |->
                                         tokens_seen + NewTokensSeen(batch_idx[w]),
                                     interval_time |-> now[w] - start[w],
                                     elapsed_time |-> now[w] - loop_start[w],
                                     overall_throughput |->
                                         OverallThroughput(batch_idx[w],
                                                           now[w] - loop_start[w])]))
                    /\ wandb_logged' =
                         IF cfg.use_wandb
                         THEN Set(wandb_logged, w, wandb_logged[w] \cup {batch_idx[w]})
                         ELSE wandb_logged
               ELSE UNCHANGED <<printed, wandb_logged, metrics>>
            /\ start' = Set(start, w, now[w])
            /\ ddp_stats' = Set(ddp_stats, w, StatsAfterReport(w))
            /\ events' = Set(events, w, Append(events[w], "report"))
            /\ pc' = Set(pc, w, "ckpt")
            /\ err' = err
    /\ UNCHANGED <<cfgVars, polVars, reduceVars, countVars, wandb_inited, batch_idx,
                   result, interval_total, saves, reduce_calls, now, loop_start>>

\* lines 134-143: checkpointer.save(batch_idx, model, optimizer, train_loader,
\* tokens_seen=tokens_seen + new_tokens_seen) on a checkpoint boundary
Checkpoint(w) ==
    /\ pc[w] = "ckpt"
    /\ IF CheckpointDue(w, batch_idx[w])
       THEN IF new_tokens_seen[w].bound
            THEN LET ok == Len(saves[w]) + 1 # save_fault[w]
                 IN  /\ saves' = Set(saves, w,
                                     Append(saves[w],
                                            [step |-> batch_idx[w],
                                             tokens_seen |-> SaveTokens(w),
                                             drawn |-> drawn[w],
                                             opt_steps |-> opt_steps[w],
                                             sched_steps |-> sched_steps[w],
                                             ok |-> ok]))
                     /\ events' = Set(events, w, Append(events[w], "save"))
                     /\ pc' = Set(pc, w, AfterSave(ok))
                     /\ err' = IF ok THEN err ELSE Set(err, w, "SaveError")
            ELSE /\ pc' = Set(pc, w, "failed")
                 /\ err' = Set(err, w, "UnboundLocalError")
                 /\ UNCHANGED <<saves, events>>
       ELSE /\ pc' = Set(pc, w, "loop")
            /\ UNCHANGED <<err, saves, events>>
    /\ UNCHANGED <<cfgVars, polVars, reduceVars, sinkVars, countVars, clockVars,
                   batch_idx, ddp_stats, train_loss, g_norm, new_tokens_seen,
                   result, interval_total, reduce_calls, metrics>>

\* ---------------------------------------------------------- get_policies
\* torch.version.cuda: None, or a version string that packaging parses to a
\* release tuple, or one it rejects (InvalidVersion)
CudaVersions ==
    {[kind |-> "none", release |-> << >>],
     [kind |-> "version", release |-> <<10, 2>>],
     [kind |-> "version", release |-> <<11, 0>>],
     [kind |-> "version", release |-> <<12, 1>>],
     [kind |-> "invalid", release |-> << >>]}

\* nccl.version(): a (major, minor, patch) tuple, or an exception
NcclVersions ==
    {[raises |-> FALSE, version |-> <<2, 9, 6>>],
     [raises |-> FALSE, version |-> <<2, 10, 3>>],
     [raises |-> FALSE, version |-> <<2, 18, 3>>],
     [raises |-> TRUE, version |-> << >>]}

ProbeAnswers == {"yes", "no", "raise"}

ShardingStrings == {"fsdp", "hsdp", "ddp", "xyz", ""}

PolicyInputs ==
    [mixed_precision : BOOLEAN,
     sharding_strategy : ShardingStrings,
     rank : {0, 1},
     cuda : CudaVersions,
     bf16_supported : ProbeAnswers,
     nccl_available : ProbeAnswers,
     nccl_version : NcclVersions]

PolicyPending ==
    [status |-> "pending", precision |-> "unset", sharding |-> "unset",
     printed |-> << >>]

\* Python's >= on tuples: lexicographic, a proper prefix being the smaller
RECURSIVE TupleGE(_, _)
TupleGE(a, b) ==
    IF b = << >> THEN TRUE
    ELSE IF a = << >> THEN FALSE
    ELSE IF Head(a) # Head(b) THEN Head(a) > Head(b)
    ELSE TupleGE(Tail(a), Tail(b))

\* lines 163 and 165: the thresholds (11, 0) and (2, 10)
MinCuda == <<11, 0>>
MinNccl == <<2, 10>>

\* lines 160-166: the short-circuit "and" chain; "raise" when a probe that is
\* evaluated raises
VerifyBfloatSupport(in) ==
    IF in.cuda.kind = "none" THEN "no"
    ELSE IF in.bf16_supported # "yes" THEN in.bf16_supported
    ELSE IF in.cuda.kind = "invalid" THEN "raise"
    ELSE IF ~TupleGE(in.cuda.release, MinCuda) THEN "no"
    ELSE IF in.nccl_available # "yes" THEN in.nccl_available
    ELSE IF in.nccl_version.raises THEN "raise"
    ELSE IF TupleGE(in.nccl_version.version, MinNccl) THEN "yes"
    ELSE "no"

\* bfSixteen chosen whenever mixed precision is on, whatever the probes answer
MixedPrecisionPolicy_NoFallback(in, bf16_ready) ==
    IF in.mixed_precision THEN "bfSixteen" ELSE "None"

\* lines 169-180
MixedPrecisionPolicy(in, bf16_ready) ==
    IF in.mixed_precision
    THEN IF bf16_ready THEN "bfSixteen" ELSE "fpSixteen"
    ELSE "None"

\* an unrecognised string falling through to the last named strategy
ShardingStrategyOf_LastNamed(str) ==
    IF str = "fsdp" THEN "FULL_SHARD"
    ELSE IF str = "hsdp" THEN "HYBRID_SHARD"
    ELSE "NO_SHARD"

\* lines 186-193
ShardingStrategyOf(str) ==
    IF str = "fsdp" THEN "FULL_SHARD"
    ELSE IF str = "hsdp" THEN "HYBRID_SHARD"
    ELSE IF str = "ddp" THEN "NO_SHARD"
    ELSE "FULL_SHARD"

\* lines 173-178 and 194-195: what rank 0 prints
PolicyOutput(in, bf16_ready) ==
    IF in.rank # 0 THEN << >>
    ELSE (IF in.mixed_precision
          THEN IF bf16_ready THEN <<"bFloat16 enabled">> ELSE <<"FP16 enabled">>
          ELSE << >>)
         \o <<"Sharding strategy">>

\* lines 157-197
GetPolicies ==
    /\ pol_out.status = "pending"
    /\ LET probe == VerifyBfloatSupport(pol_in)
       IN  pol_out' =
             IF probe = "raise"
             THEN [PolicyPending EXCEPT !.status = "raised"]
             ELSE [status |-> "returned",
                   precision |-> MixedPrecisionPolicy(pol_in, probe = "yes"),
                   sharding |-> ShardingStrategyOf(pol_in.sharding_strategy),
                   printed |-> PolicyOutput(pol_in, probe = "yes")]
    /\ UNCHANGED <<cfgVars, reduceVars, sinkVars, countVars, clockVars, pol_in, pc,
                   err, batch_idx, ddp_stats, train_loss, g_norm, new_tokens_seen,
                   result, interval_total, saves, events, reduce_calls, metrics>>

\* -------------------------------------------------------- specifications
\* the policy the launcher passes on: selected before train() is entered
PolicyDone ==
    /\ pol_in = [mixed_precision |-> TRUE, sharding_strategy |-> "hsdp", rank |-> 0,
                 cuda |-> [kind |-> "none", release |-> << >>],
                 bf16_supported |-> "no", nccl_available |-> "no",
                 nccl_version |-> [raises |-> TRUE, version |-> << >>]]
    /\ pol_out = [status |-> "returned", precision |-> "fpSixteen",
                  sharding |-> "HYBRID_SHARD",
                  printed |-> <<"FP16 enabled", "Sharding strategy">>]

Init == TrainInputs /\ NominalRun /\ TrainEntry /\ PolicyDone

Next ==
    \/ \E w \in Workers : Startup(w)
    \/ \E w \in Workers : NextBatch(w)
    \/ \E w \in Workers : TrainStep(w)
    \/ AllReduceComplete
    \/ \E w \in Workers : Report(w)
    \/ \E w \in Workers : Checkpoint(w)

\* every rank of the group running train() on any losses
Spec == Init /\ [][Next]_vars

\* the loss sequence 1.0, 2.0, 3.0, ... with gradient norms 0.1, 0.2, 0.3, ...
ScenarioSample(b) == <<10 * b, b>>

ScenarioStep(w) == TrainStepOn(w, ScenarioSample(batch_idx[w] - start_step))

NextScenario ==
    \/ \E w \in Workers : Startup(w)
    \/ \E w \in Workers : NextBatch(w)
    \/ \E w \in Workers : ScenarioStep(w)
    \/ AllReduceComplete
    \/ \E w \in Workers : Report(w)
    \/ \E w \in Workers : Checkpoint(w)

\* train() on the deterministic loss sequence
SpecScenario == Init /\ [][NextScenario]_vars

\* loaders that run out after one or two batches, or not within the run
LoaderLengths == {1, 2, LoaderPlenty}

\* the first or the second call of save raising, or none
SaveFaults == {0, 1, 2}

\* steps of one second each, or of one and two seconds in turn
Paces == {SteadyPace, [n \in 1..MaxSteps |-> 1 + (n % 2)]}

\* the collaborators train() is handed: a profiler or none, a loader and a
\* checkpointer per rank that may give out, and steps of uneven duration
Collaborators ==
    /\ profiler \in BOOLEAN
    /\ \/ /\ loader \in [Workers -> LoaderLengths]
          /\ save_fault = [w \in Workers |-> 0]
          /\ pace = [w \in Workers |-> SteadyPace]
       \/ /\ loader = [w \in Workers |-> LoaderPlenty]
          /\ save_fault \in [Workers -> SaveFaults]
          /\ pace = [w \in Workers |-> SteadyPace]
       \/ /\ loader = [w \in Workers |-> LoaderPlenty]
          /\ save_fault = [w \in Workers |-> 0]
          /\ pace \in [Workers -> Paces]

InitFaults ==
    /\ cfg \in {c \in Configs : ~c.use_wandb}
    /\ world \in WorldSizes
    /\ environ = [k \in {"WORLD_SIZE"} |-> world]
    /\ wandb_installed = TRUE
    /\ start_step \in 0..MaxStart
    /\ tokens_seen = 0
    /\ Collaborators
    /\ TrainEntry
    /\ PolicyDone

\* train() on the deterministic loss sequence with collaborators that may give
\* out; a rank that can take a step eventually takes one
SpecFaults == InitFaults /\ [][NextScenario]_vars /\ WF_vars(NextScenario)

\* get_policies() on every configuration and every answer of the probes
InitPolicy ==
    /\ pol_in \in PolicyInputs
    /\ pol_out = PolicyPending
    /\ cfg = [num_steps |-> 1, report_interval |-> 1, checkpoint_interval |-> 1,
              batch_size |-> batch_size, seq_length |-> seq_length,
              use_wandb |-> FALSE]
    /\ world = 1
    /\ environ = [k \in {"WORLD_SIZE"} |-> world]
    /\ wandb_installed = FALSE
    /\ start_step = 0
    /\ tokens_seen = 0
    /\ NominalRun
    /\ TrainEntry

SpecPolicy == InitPolicy /\ [][GetPolicies]_vars

\* ============================================================ properties
Max(a, b) == IF a >= b THEN a ELSE b

\* rank w has just left the report block of a report boundary (line 133 done)
AtReportExit(w) == pc[w] = "ckpt" /\ batch_idx[w] % cfg.report_interval = 0

\* rank w has run the report block of boundary step s to its end
PassedReport(w, s) ==
    /\ s > start_step
    /\ s % cfg.report_interval = 0
    /\ \/ batch_idx[w] > s
       \/ batch_idx[w] = s /\ pc[w] \in {"ckpt", "loop"}

\* rank w has run step s to the end of the loop body
CompletedStep(w, s) ==
    /\ s > start_step
    /\ \/ batch_idx[w] > s
       \/ batch_idx[w] = s /\ pc[w] = "loop"

\* rank w has left step s at the checkpoint statement of line 136, by finishing
\* it or by the exception raised in it
ReachedCheckpoint(w, s) ==
    \/ CompletedStep(w, s)
    \/ /\ s > start_step
       /\ batch_idx[w] = s
       /\ pc[w] = "failed"
       /\ err[w] = "UnboundLocalError"

SaveCount(w, s) == Cardinality({i \in DOMAIN saves[w] : saves[w][i].step = s})

\* the steps one report interval ending at boundary s holds on one rank
IntervalSteps(s) == s - Max(start_step, s - cfg.report_interval)

\* C1: at every report boundary, on every rank, the average loss (and the
\* average gradient norm) computed after the all-reduce is the sum of all
\* per-step losses (norms) of all ranks since the previous reduction divided by
\* the number of those samples, whatever the order the ranks contributed in.
C1_AverageIsGlobalMean ==
    \A w \in Workers :
        (AtReportExit(w) \/ (pc[w] = "failed" /\ err[w] = "KeyError")) =>
            LET t == interval_total[batch_idx[w]]
            IN  /\ t[3] = world * IntervalSteps(batch_idx[w])
                /\ train_loss[w] = Div(t[1], t[3])
                /\ g_norm[w] = Div(t[2], t[3])

C1_Witness ==
    /\ world = 2
    /\ AtReportExit(1)
    /\ interval_total[batch_idx[1]][3] = 4
    /\ train_loss[1].den = 2
    /\ g_norm[1].den = 4

\* C2: every save carries the cumulative token count of the step it is made at,
\* tokens_seen + (s - start_step) * world_size * batch_size * seq_length, and
\* the checkpoint statement never reads an unbound new_tokens_seen.
C2_SaveCarriesCurrentTokens ==
    \A w \in Workers :
        /\ \A i \in DOMAIN saves[w] :
              saves[w][i].tokens_seen =
                  tokens_seen + (saves[w][i].step - start_step) * world
                                  * cfg.batch_size * cfg.seq_length
        /\ ~(pc[w] = "failed" /\ err[w] = "UnboundLocalError"
                /\ batch_idx[w] <= cfg.num_steps)

\* C3: for every step s a rank has executed, save was invoked at s exactly once
\* if s mod checkpoint_interval = 0 and not at all otherwise.
C3_SaveIffCheckpointStep ==
    \A w \in Workers : \A s \in 1..cfg.num_steps :
        ReachedCheckpoint(w, s) =>
            SaveCount(w, s) = (IF s % cfg.checkpoint_interval = 0 THEN 1 ELSE 0)

\* C4: right after the report block of every boundary ddp_stats is zero on every
\* rank, reporting or not, and what a rank contributes to a reduction counts
\* exactly the steps of the interval that ends there.
C4_StatsZeroAfterReduction ==
    \A w \in Workers :
        /\ AtReportExit(w) => ddp_stats[w] = Zeros
        /\ pc[w] = "reduce" => ddp_stats[w][3] = IntervalSteps(batch_idx[w])

C4_Witness ==
    /\ world = 2
    /\ round_log.n = 2
    /\ AtReportExit(1)
    /\ ddp_stats[1] = Zeros
    /\ printed[1] = {}

\* C5: a rank that has run its steps start_step+1..num_steps and leaves the loop
\* at batch_idx > num_steps has completed and returned the average loss of the
\* most recent report boundary.
C5_LoopReturnsLastAverage ==
    \A w \in Workers :
        (/\ start_step < cfg.num_steps
         /\ batch_idx[w] > cfg.num_steps
         /\ pc[w] = "done" \/ (pc[w] = "failed" /\ err[w] = "UnboundLocalError")) =>
            /\ pc[w] = "done"
            /\ result[w].bound
            /\ result[w] = train_loss[w]

\* the end-to-end scenario: num_steps=3, report_interval=2,
\* checkpoint_interval=2, one worker, start_step=0
ScenarioConfig ==
    /\ cfg.num_steps = 3
    /\ cfg.report_interval = 2
    /\ cfg.checkpoint_interval = 2
    /\ world = 1
    /\ start_step = 0

\* C6 as stated: in the scenario the training loop returns 3.0.
C6_ScenarioReturnsLastLoss ==
    (ScenarioConfig /\ pc[0] = "done") => result[0] = Div(30, 1)

\* C6: in the scenario step 3 is executed without a further report (its sample
\* stays in ddp_stats, the only report is that of step 2) and the training loop
\* returns 1.5, the average loss reported at step 2.
C6_ScenarioReturnsReportedAverage ==
    (ScenarioConfig /\ pc[0] = "done") =>
        /\ result[0] = Div(15, 1)
        /\ printed[0] = {2}
        /\ ddp_stats[0] = <<30, 3, 1>>

C6_Witness ==
    /\ ScenarioConfig
    /\ pc[0] = "done"
    /\ batch_idx[0] = 4
    /\ g_norm[0] = Div(3, 2)
    /\ Len(saves[0]) = 1

\* a rank has gone past the all_reduce of boundary step s
PassedBarrier(w, s) ==
    /\ s > start_step
    /\ s % cfg.report_interval = 0
    /\ \/ batch_idx[w] > s
       \/ batch_idx[w] = s /\ pc[w] \in {"report", "ckpt", "loop", "failed"}

\* a rank has called the all_reduce of boundary step s
ArrivedAt(w, s) == batch_idx[w] > s \/ (batch_idx[w] = s /\ pc[w] # "body")

\* C7: every completed reduction has combined one contribution of every rank,
\* all made at the same step index, and no rank is past the reduction of a
\* boundary before every rank has arrived at that boundary.
C7_ReductionIsBarrier ==
    /\ \A w \in Workers : arrived[w] <= 1
    /\ round_log.n > 0 =>
          \A w \in Workers :
              /\ round_log.who[w] = 1
              /\ round_log.step[w] = round_log.step[0]
    /\ \A a \in Workers : \A b \in Workers : \A s \in 1..cfg.num_steps :
          PassedBarrier(a, s) => ArrivedAt(b, s)

C7_Witness ==
    /\ world = 2
    /\ round_log.n = 2
    /\ round_log.step = [w \in Workers |-> 2]
    /\ PassedBarrier(0, 2)
    /\ pc[1] = "report"

\* C8 as stated: no rank other than rank 0 calls save.
C8_OnlyRankZeroSaves == \A w \in Workers : w # 0 => saves[w] = << >>

\* C8: save is not guarded by the rank. Every rank that has completed a step s
\* with s mod checkpoint_interval = 0 has called save for s exactly once, with
\* tokens_seen + the new_tokens_seen that rank itself computed at its latest
\* report boundary.
C8_EveryRankSaves ==
    \A w \in Workers : \A s \in 1..cfg.num_steps :
        (CompletedStep(w, s) /\ s % cfg.checkpoint_interval = 0) =>
            /\ SaveCount(w, s) = 1
            /\ new_tokens_seen[w].bound
            /\ \A i \in DOMAIN saves[w] :
                  saves[w][i].step = s =>
                      saves[w][i].tokens_seen =
                          tokens_seen + (s - (s % cfg.report_interval) - start_step)
                                          * world * cfg.batch_size * cfg.seq_length

C8_Witness ==
    /\ world = 2
    /\ CompletedStep(1, 2)
    /\ cfg.checkpoint_interval = 2
    /\ SaveCount(1, 2) = 1
    /\ SaveCount(0, 2) = 1

\* C9: only rank 0 emits. A rank other than 0 prints no metrics and never
\* calls wandb.init or wandb.log; rank 0 has printed exactly the boundaries
\* whose report block it has run, and logged the same steps to wandb when
\* use_wandb is set and nothing otherwise.
C9_OnlyRankZeroEmits ==
    \A w \in Workers :
        IF w = 0
        THEN /\ printed[w] = {s \in 1..cfg.num_steps : PassedReport(w, s)}
             /\ wandb_logged[w] = (IF cfg.use_wandb THEN printed[w] ELSE {})
             /\ (w \in wandb_inited) = (cfg.use_wandb /\ pc[w] # "start"
                                           /\ err[w] # "ImportError")
        ELSE /\ printed[w] = {}
             /\ wandb_logged[w] = {}
             /\ w \notin wandb_inited

C9_Witness ==
    /\ world = 2
    /\ cfg.use_wandb
    /\ PassedReport(1, 2)
    /\ wandb_logged[0] = {1, 2}
    /\ 0 \in wandb_inited

\* a capability probe of get_policies raises
AnyProbeRaises ==
    \/ pol_in.bf16_supported = "raise"
    \/ pol_in.cuda.kind = "invalid"
    \/ pol_in.nccl_available = "raise"
    \/ pol_in.nccl_version.raises

\* C10: when a capability probe raises, get_policies still returns, with
\* fpSixteen when mixed precision is enabled and None when it is disabled.
C10_ProbeFailureNeverCrashes ==
    (AnyProbeRaises /\ pol_out.status # "pending") =>
        /\ pol_out.status = "returned"
        /\ pol_out.precision =
              (IF pol_in.mixed_precision THEN "fpSixteen" ELSE "None")

\* every capability check of lines 160-166 answers yes: a CUDA build of release
\* 11.0 or later, bf16 supported, NCCL available and of version 2.10 or later
AllCapabilitiesHold ==
    /\ pol_in.cuda.kind = "version"
    /\ pol_in.cuda.release[1] >= 11
    /\ pol_in.bf16_supported = "yes"
    /\ pol_in.nccl_available = "yes"
    /\ ~pol_in.nccl_version.raises
    /\ \/ pol_in.nccl_version.version[1] > 2
       \/ pol_in.nccl_version.version[1] = 2 /\ pol_in.nccl_version.version[2] >= 10

\* C11: whenever get_policies returns, the precision policy is None when
\* mixed_precision is false, and otherwise bfSixteen if and only if every
\* capability check holds, fpSixteen in every other case.
C11_PrecisionMode ==
    pol_out.status = "returned" =>
        pol_out.precision =
            (IF ~pol_in.mixed_precision THEN "None"
             ELSE IF AllCapabilitiesHold THEN "bfSixteen"
             ELSE "fpSixteen")

C11_Witness ==
    /\ pol_out.status = "returned"
    /\ pol_in.mixed_precision
    /\ pol_in.cuda.release = <<12, 1>>
    /\ pol_in.bf16_supported = "yes"
    /\ pol_in.nccl_available = "yes"
    /\ pol_in.nccl_version.version = <<2, 9, 6>>
    /\ pol_out.precision = "fpSixteen"

\* C12: the sharding strategy depends on the configuration string alone: fsdp
\* gives FULL_SHARD, hsdp HYBRID_SHARD, ddp NO_SHARD and any other string
\* FULL_SHARD, and no string makes get_policies raise (it raises only when a
\* probe it evaluates raises).
C12_ShardingIsTotal ==
    /\ pol_out.status = "returned" =>
          pol_out.sharding =
              (CASE pol_in.sharding_strategy = "hsdp" -> "HYBRID_SHARD"
                 [] pol_in.sharding_strategy = "ddp" -> "NO_SHARD"
                 [] OTHER -> "FULL_SHARD")
    /\ pol_out.status = "raised" => AnyProbeRaises

C12_Witness ==
    /\ pol_out.status = "returned"
    /\ pol_in.sharding_strategy = "xyz"
    /\ pol_out.sharding = "FULL_SHARD"

\* rank w has run the loop body of step s (its optimizer.step() included)
Executed(w, s) == s > start_step /\ opt_steps[w] >= s - start_step

\* C13: a failed save is fatal and is not retried. The failing call is the last
\* thing its rank does: the exception leaves train() without a return value,
\* save has been called once for that step, and the rank has fetched no batch,
\* stepped no optimizer or scheduler and called no reduction since.
C13_SaveFailureIsFatal ==
    \A w \in Workers : \A i \in DOMAIN saves[w] :
        ~saves[w][i].ok =>
            /\ i = Len(saves[w])
            /\ pc[w] = "failed"
            /\ err[w] = "SaveError"
            /\ ~result[w].bound
            /\ batch_idx[w] = saves[w][i].step
            /\ SaveCount(w, saves[w][i].step) = 1
            /\ drawn[w] = saves[w][i].drawn
            /\ opt_steps[w] = saves[w][i].opt_steps
            /\ sched_steps[w] = saves[w][i].sched_steps
            /\ \A s \in reduce_calls[w] : s <= saves[w][i].step

C13_Witness ==
    /\ world = 2
    /\ cfg.num_steps = 3
    /\ save_fault[0] = 2
    /\ Len(saves[0]) = 2
    /\ ~saves[0][2].ok
    /\ pc[0] = "failed"
    /\ pc[1] = "done"

\* C14: with use_wandb set and wandb not installed every rank fails in the
\* import before the loop: it fetches no batch, steps no optimizer, calls no
\* reduction, no save and no wandb.init. Without use_wandb, or with wandb
\* installed, no rank fails in the import.
C14_MissingWandbFailsAtStartup ==
    /\ (cfg.use_wandb /\ ~wandb_installed) =>
          \A w \in Workers :
              /\ pc[w] \in {"start", "failed"}
              /\ pc[w] = "failed" => err[w] = "ImportError"
              /\ drawn[w] = 0
              /\ opt_steps[w] = 0
              /\ reduce_calls[w] = {}
              /\ saves[w] = << >>
              /\ w \notin wandb_inited
    /\ \A w \in Workers :
          err[w] = "ImportError" => (cfg.use_wandb /\ ~wandb_installed)

C14_Witness ==
    /\ world = 2
    /\ cfg.use_wandb
    /\ ~wandb_installed
    /\ pc = [w \in Workers |-> "failed"]
    /\ err = [w \in Workers |-> "ImportError"]

\* C15: a rank has called the all-reduce at exactly those steps it has executed
\* that are multiples of report_interval, whatever start_step it resumed from.
C15_ReduceIffReportStep ==
    \A w \in Workers :
        reduce_calls[w] =
            {s \in 1..cfg.num_steps : Executed(w, s) /\ s % cfg.report_interval = 0}

C15_Witness ==
    /\ world = 2
    /\ start_step = 1
    /\ cfg.report_interval = 2
    /\ cfg.num_steps = 3
    /\ opt_steps[1] = 2
    /\ reduce_calls[1] = {2}

\* C16: a run started without WORLD_SIZE performs no optimizer step and no
\* reduction on any rank, and no rank returns from train().
C16_MissingWorldSizeFailsFirst ==
    "WORLD_SIZE" \notin DOMAIN environ =>
        \A w \in Workers :
            /\ opt_steps[w] = 0
            /\ reduce_calls[w] = {}
            /\ pc[w] # "done"

IsPrefix(a, b) == Len(a) <= Len(b) /\ a = SubSeq(b, 1, Len(a))

\* the step rank w executed last
LastStep(w) == start_step + opt_steps[w]

\* the order of one step s as C17 states it
StepOrder(s) ==
    <<"clip", "optimizer", "scheduler", "accumulate">>
        \o (IF profiler THEN <<"profiler">> ELSE << >>)
        \o (IF s % cfg.report_interval = 0 THEN <<"all_reduce", "report">> ELSE << >>)
        \o (IF s % cfg.checkpoint_interval = 0 THEN <<"save">> ELSE << >>)

\* the sum 1 + 2 + ... + n
Triangle(n) == (n * (n + 1)) \div 2

\* C17: what a rank has done in a step is at every moment a prefix of: clip,
\* optimizer step, scheduler step, accumulation, profiler step if a profiler is
\* passed, all-reduce and report on a report boundary, save on a checkpoint
\* boundary; a finished step has done all of it. What the rank hands to the
\* all-reduce of step s counts s itself: on the loss sequence 1.0, 2.0, ... it
\* is the sum of the losses of the interval up to and including that of s.
C17_StepOrder ==
    \A w \in Workers :
        /\ IsPrefix(events[w], StepOrder(LastStep(w)))
        /\ (pc[w] = "loop" /\ opt_steps[w] > 0) => events[w] = StepOrder(LastStep(w))
        /\ pc[w] = "reduce" =>
              LET n == batch_idx[w] - start_step
                  k == IntervalSteps(batch_idx[w])
              IN  /\ ddp_stats[w][3] = k
                  /\ ddp_stats[w][1] = 10 * (Triangle(n) - Triangle(n - k))

C17_Witness ==
    /\ world = 2
    /\ profiler
    /\ batch_idx[1] = 2
    /\ pc[1] = "loop"
    /\ events[1] = <<"clip", "optimizer", "scheduler", "accumulate", "profiler",
                     "all_reduce", "report", "save">>

\* the tokens one rank has processed by step s of this run
TokensPerRank(s) == (s - start_step) * cfg.batch_size * cfg.seq_length

\* C18 as stated: the throughput rank 0 emits at a report is the tokens per rank
\* divided by the time since the previous report (since the loop started, for
\* the first report).
C18_ThroughputSinceLastReport ==
    \A i \in DOMAIN metrics[0] :
        LET m == metrics[0][i]
            previous == IF i = 1 THEN loop_start[0] ELSE metrics[0][i - 1].at
        IN  /\ m.tokens = TokensPerRank(m.step) * world
            /\ m.overall_throughput = TokensPerRank(m.step) \div (m.at - previous)

\* C18: at every report rank 0 emits, as throughput, the tokens one rank has
\* processed since start_step, (step - start_step) * batch_size * seq_length,
\* divided by the time since the loop started (loop_start is never reset), the
\* quotient cut to an integer; the token count is recomputed from the step
\* delta at every report.
C18_ThroughputSinceLoopStart ==
    \A i \in DOMAIN metrics[0] :
        LET m == metrics[0][i]
        IN  /\ m.tokens = TokensPerRank(m.step) * world
            /\ m.total_tokens_seen = tokens_seen + m.tokens
            /\ m.elapsed_time = m.at - loop_start[0]
            /\ m.overall_throughput = TokensPerRank(m.step) \div (m.at - loop_start[0])

C18_Witness ==
    /\ world = 2
    /\ pace[0] = SteadyPace
    /\ pace[1] # SteadyPace
    /\ Len(metrics[0]) = 2
    /\ metrics[0][2].elapsed_time = 3
    /\ metrics[0][2].interval_time = 1
    /\ metrics[0][2].overall_throughput = (2 * batch_size * seq_length) \div 3

\* rank w is out of the loop, by the return of line 145 or by an exception
Left(w) == pc[w] \in {"done", "failed"}

AllLeft == \A w \in Workers : Left(w)

\* every loader yields the num_steps - start_step + 1 batches the loop asks
\* for, and no save raises
SoundCollaborators ==
    \A w \in Workers :
        /\ loader[w] >= cfg.num_steps - start_step + 1
        /\ save_fault[w] = 0

\* rank v waits inside the all-reduce of a boundary that rank w, whose loader
\* ran out first, left the loop without reaching
Starved(v, w) ==
    /\ v \in Workers
    /\ w \in Workers
    /\ pc[v] = "reduce"
    /\ Left(w)
    /\ drawn[w] = loader[w]
    /\ LastStep(w) < batch_idx[v]

\* C19: with loaders that yield num_steps - start_step + 1 batches and saves
\* that do not raise, under fair scheduling every rank eventually leaves the
\* loop, and the ranks have then called the all-reduce at the same steps.
\* A rank waiting in the all-reduce of a boundary that another rank, its loader
\* exhausted, never reached stays in that all-reduce for ever.
C19_FairRunsLeaveTheLoop ==
    /\ SoundCollaborators ~> AllLeft
    /\ []((SoundCollaborators /\ AllLeft) =>
             \A w \in Workers : reduce_calls[w] = reduce_calls[0])
    /\ [][\A v \in Workers : \A w \in Workers :
              Starved(v, w) => Starved(v, w)']_vars

C19_Witness ==
    /\ world = 2
    /\ SoundCollaborators
    /\ pc = [w \in Workers |-> "done"]
    /\ round_log.n = 3
    /\ reduce_calls[1] = {1, 2, 3}

\* the converse case of C19 arises: rank 1 waits in the all-reduce of step 2
\* after rank 0 has run out of batches at step 1
C19_StarvedReached ==
    /\ world = 2
    /\ Starved(1, 0)
    /\ batch_idx[1] = 2
    /\ loader[0] = 1

\* C20: every save made at step s is handed a loader from which exactly
\* s - start_step batches have been drawn and an optimizer and a scheduler that
\* have each stepped s - start_step times. The batch drawn beyond num_steps is
\* drawn after the last save: once it is drawn the rank is out of the loop.
C20_SaveAgreesWithStep ==
    \A w \in Workers :
        /\ \A i \in DOMAIN saves[w] :
              LET r == saves[w][i]
              IN  /\ r.step = batch_idx[w] \/ r.step < batch_idx[w]
                  /\ r.drawn = r.step - start_step
                  /\ r.opt_steps = r.step - start_step
                  /\ r.sched_steps = r.step - start_step
        /\ (drawn[w] > 0 /\ start_step + drawn[w] > cfg.num_steps) =>
              /\ Left(w)
              /\ drawn[w] = opt_steps[w] + 1
              /\ \A i \in DOMAIN saves[w] : saves[w][i].drawn < drawn[w]

C20_Witness ==
    /\ world = 2
    /\ start_step = 1
    /\ cfg.num_steps = 3
    /\ Len(saves[1]) = 2
    /\ saves[1][2].step = 3
    /\ saves[1][2].drawn = 2
    /\ drawn[1] = 3
    /\ pc[1] = "done"

====
